---- MODULE Spec2Model ----
(***************************************************************************)
(* A model of txu (src/txu.cpp): a converter of text files between ANSI,   *)
(* UTF-8 and UTF-16.  The codec functions ReadChar and WriteChar are       *)
(* operators on byte sequences; one run of main() on an opened input file  *)
(* (a session) is a state machine over the input stream, the output        *)
(* stream and main's locals.                                               *)
(***************************************************************************)
EXTENDS Integers, Sequences, FiniteSets, TLC

VARIABLES
    inBytes,      \* content of the input file of the session
    inPos,        \* cursor of fpIn
    inState,      \* "open" or "closed": state of fpIn
    inCloses,     \* number of fclose(fpIn) calls made so far
    inMisuse,     \* TRUE once fpIn was read, sought or closed after its close
    InFmt,        \* main's InFmt
    OutFmt,       \* main's OutFmt
    bVerbose,     \* the global bVerbose
    BOMFmt,       \* main's BOMFmt
    bomPos,       \* cursor of fpIn when CheckBOM returned
    outBytes,     \* bytes accepted by the output stream so far
    outState,     \* "none", "stdout", "file", "closed": state of fpOut
    OutFile,      \* TRUE when an output file name was given
    Line,         \* main's Line vector
    nLines,       \* the global nLines
    nChars,       \* the global nChars
    readCalls,    \* number of ReadChar invocations of the session
    decoded,      \* the code points ReadChar returned in the session, in order
    msgs,         \* messages printed to stderr by msg()
    exitCode,     \* "NONE" while running, else main's return value or "CRASH"
    pc,           \* position in main
    session,      \* 1 for a first conversion, 2 for a conversion of its output
    first,        \* input file and options of the first session
    reported,     \* TRUE once the verbose report was printed to stdout
    wfail,        \* the first failed byte write of the session, if any
    codec         \* state of a single WriteChar/ReadChar round trip

vars == << inBytes, inPos, inState, inCloses, inMisuse, InFmt, OutFmt, bVerbose,
           BOMFmt, bomPos, outBytes, outState, OutFile, Line, nLines, nChars,
           readCalls, decoded, msgs, exitCode, pc, session, first, reported, wfail,
           codec >>

sessionVars == << inBytes, inPos, inState, inCloses, inMisuse, InFmt, OutFmt,
                  bVerbose, BOMFmt, bomPos, outBytes, outState, OutFile, Line,
                  nLines, nChars, readCalls, decoded, msgs, exitCode, pc,
                  session, first, reported, wfail >>

-----------------------------------------------------------------------------
(* enum TxEncoding *)
FMT_UNKNOWN == "FMT_UNKNOWN"
FMT_AUTO    == "FMT_AUTO"
FMT_ANSI    == "FMT_ANSI"
FMT_UTF8    == "FMT_UTF8"
FMT_UTF16   == "FMT_UTF16"
FMT_UTF16BE == "FMT_UTF16BE"

\* The encodings /INFORMAT accepts and the encodings /OUTFORMAT accepts.
InFormats  == {FMT_AUTO, FMT_ANSI, FMT_UTF8, FMT_UTF16, FMT_UTF16BE}
OutFormats == {FMT_ANSI, FMT_UTF8, FMT_UTF16, FMT_UTF16BE}

\* '\n'
LF == 10

\* _countof(ch) in CheckBOM: the size of the sniffing buffer.
SniffSize == 32

\* The least number of bytes read for CheckBOM to guess ANSI.
AnsiMinBytes == 16

\* The number of bytes the verbose report reads.
VerboseBytes == 8

Min(a, b) == IF a < b THEN a ELSE b

-----------------------------------------------------------------------------
(* ReadChar *)

\* fread(&c, 1, 1, fpIn) at cursor p of stream f: n is the count returned.
Fread1(f, p) ==
    IF p < Len(f) THEN [n |-> 1, c |-> f[p + 1], pos |-> p + 1]
                  ELSE [n |-> 0, c |-> 0, pos |-> p]

\* The chain of k reads "if (fread(...) != 1) return false;
\* Char = (Char << 6) + (c & 0x3F);" of a multi-byte UTF-8 branch.  The
\* leading byte leaves at most 5 bits and at most 5 reads follow, so Char
\* stays below 2^31 and the 32-bit unsigned never wraps.
RECURSIVE Utf8Tail(_, _, _, _)
Utf8Tail(f, p, Char, k) ==
    IF k = 0 THEN [ok |-> TRUE, Char |-> Char, pos |-> p, invalid |-> FALSE]
    ELSE LET r == Fread1(f, p) IN
         IF r.n # 1 THEN [ok |-> FALSE, Char |-> Char, pos |-> r.pos, invalid |-> FALSE]
         ELSE Utf8Tail(f, r.pos, Char * 64 + (r.c % 64), k - 1)

\* case FMT_UTF8 of ReadChar, after the leading byte c was read.
ReadUtf8(f, p, c) ==
    IF c < 128            THEN [ok |-> TRUE, Char |-> c, pos |-> p, invalid |-> FALSE]
    ELSE IF c \div 32 = 6   THEN Utf8Tail(f, p, c % 32, 1)
    ELSE IF c \div 16 = 14  THEN Utf8Tail(f, p, c % 16, 2)
    ELSE IF c \div 8 = 30   THEN Utf8Tail(f, p, c % 8, 3)
    ELSE IF c \div 4 = 62   THEN Utf8Tail(f, p, c % 4, 4)
    ELSE IF c \div 2 = 126  THEN Utf8Tail(f, p, c % 2, 5)
    ELSE [ok |-> FALSE, Char |-> 0, pos |-> p, invalid |-> TRUE]

\* ReadUtf16 with the two byte orders exchanged.
ReadUtf16Swapped(f, p, c, fmt) ==
    LET r == Fread1(f, p) IN
    IF r.n # 1 THEN [ok |-> FALSE, Char |-> c, pos |-> r.pos, invalid |-> FALSE]
    ELSE [ok |-> TRUE,
          Char |-> IF fmt = FMT_UTF16 THEN c * 256 + r.c ELSE c + r.c * 256,
          pos |-> r.pos, invalid |-> FALSE]

\* case FMT_UTF16 and case FMT_UTF16BE of ReadChar, after the first byte.
ReadUtf16(f, p, c, fmt) ==
    LET r == Fread1(f, p) IN
    IF r.n # 1 THEN [ok |-> FALSE, Char |-> c, pos |-> r.pos, invalid |-> FALSE]
    ELSE [ok |-> TRUE,
          Char |-> IF fmt = FMT_UTF16 THEN c + r.c * 256
                                      ELSE c * 256 + r.c,
          pos |-> r.pos, invalid |-> FALSE]

\* ReadChar(fpIn, InFmt, Char) on stream f at cursor p.  ok is the value
\* returned, pos the cursor afterwards, invalid whether the "Invalid
\* character sequence for UTF-8" message was printed.
ReadChar(f, p, fmt) ==
    IF fmt \notin {FMT_ANSI, FMT_UTF8, FMT_UTF16, FMT_UTF16BE}
    THEN [ok |-> FALSE, Char |-> 0, pos |-> p, invalid |-> FALSE]
    ELSE LET r == Fread1(f, p) IN
         IF r.n # 1 THEN [ok |-> FALSE, Char |-> 0, pos |-> r.pos, invalid |-> FALSE]
         ELSE IF fmt = FMT_ANSI THEN [ok |-> TRUE, Char |-> r.c, pos |-> r.pos, invalid |-> FALSE]
         ELSE IF fmt = FMT_UTF8 THEN ReadUtf8(f, r.pos, r.c)
         ELSE ReadUtf16(f, r.pos, r.c, fmt)

-----------------------------------------------------------------------------
(* WriteChar *)

\* The bytes written after the leading byte of a UTF-8 sequence: k times
\* "c = 0x80 | (Char & 0x3F); fwrite(&c...); Char >>= 6" on the shifted Char.
RECURSIVE Utf8Rest(_, _)
Utf8Rest(Char, k) ==
    IF k = 0 THEN << >>
    ELSE << 128 + (Char % 64) >> \o Utf8Rest(Char \div 64, k - 1)

\* case FMT_UTF8 of WriteChar: the bytes handed to fwrite, in order.
WriteUtf8(Char) ==
    IF Char <= 127              THEN << Char % 256 >>
    ELSE IF Char <= 2047        THEN << 192 + (Char % 32) >> \o Utf8Rest(Char \div 32, 1)
    ELSE IF Char <= 65535       THEN << 224 + (Char % 16) >> \o Utf8Rest(Char \div 16, 2)
    ELSE IF Char <= 2097151     THEN << 240 + (Char % 8) >> \o Utf8Rest(Char \div 8, 3)
    ELSE IF Char <= 67108863    THEN << 248 + (Char % 4) >> \o Utf8Rest(Char \div 4, 4)
    ELSE IF Char <= 2147483647  THEN << 252 + (Char % 2) >> \o Utf8Rest(Char \div 2, 4)
    ELSE << >>

\* WriteChar(fpOut, OutFmt, Char): the bytes it hands to fwrite, one at a
\* time and in order, when no write fails.
WriteCharBytes(fmt, Char) ==
    IF fmt = FMT_ANSI         THEN << Char % 256 >>
    ELSE IF fmt = FMT_UTF8    THEN WriteUtf8(Char)
    ELSE IF fmt = FMT_UTF16   THEN << Char % 256, (Char \div 256) % 256 >>
    ELSE IF fmt = FMT_UTF16BE THEN << (Char \div 256) % 256, Char % 256 >>
    ELSE << >>

-----------------------------------------------------------------------------
(* ReadLine, WriteLine, WriteBOM, CheckBOM *)

\* The loop of ReadLine from cursor p with `line` accumulated so far and
\* `calls` invocations of ReadChar made: chars counts the nChars++ done.
RECURSIVE ReadLineFrom(_, _, _, _, _)
ReadLineFrom(f, p, fmt, line, calls) ==
    LET r == ReadChar(f, p, fmt) IN
    IF ~r.ok
    THEN [ok |-> FALSE, Line |-> line, pos |-> r.pos, calls |-> calls + 1,
          chars |-> Len(line), invalid |-> r.invalid]
    ELSE IF r.Char = LF
    THEN [ok |-> TRUE, Line |-> Append(line, r.Char), pos |-> r.pos,
          calls |-> calls + 1, chars |-> Len(line) + 1, invalid |-> FALSE]
    ELSE ReadLineFrom(f, r.pos, fmt, Append(line, r.Char), calls + 1)

\* ReadLine(fpIn, InFmt, Line): Line.clear(), then ReadChar up to '\n'.
ReadLine(f, p, fmt) == ReadLineFrom(f, p, fmt, << >>, 0)

\* WriteLine(fpOut, OutFmt, Line): the bytes its WriteChar calls hand to
\* fwrite, in order, when no write fails.
RECURSIVE WriteLineBytes(_, _)
WriteLineBytes(fmt, line) ==
    IF line = << >> THEN << >>
    ELSE WriteCharBytes(fmt, Head(line)) \o WriteLineBytes(fmt, Tail(line))

\* WriteBOMBytes with the two UTF-16 marks exchanged.
WriteBOMBytesSwapped(fmt) ==
    IF fmt = FMT_UTF8         THEN << 239, 187, 191 >>
    ELSE IF fmt = FMT_UTF16   THEN << 254, 255 >>
    ELSE IF fmt = FMT_UTF16BE THEN << 255, 254 >>
    ELSE << >>

\* WriteBOM(fpOut, OutFmt): the bytes it hands to fwrite.
WriteBOMBytes(fmt) ==
    IF fmt = FMT_UTF8         THEN << 239, 187, 191 >>
    ELSE IF fmt = FMT_UTF16   THEN << 255, 254 >>
    ELSE IF fmt = FMT_UTF16BE THEN << 254, 255 >>
    ELSE << >>

\* ch[i] of CheckBOM: the buffer is zeroed, then filled by fread.
SniffBuf(f, i) == IF i < Min(Len(f), SniffSize) THEN f[i + 1] ELSE 0

\* CheckBOM guessing ANSI only when more than AnsiMinBytes bytes were read.
CheckBOMMoreThan(f) ==
    LET bytes == Min(Len(f), SniffSize) IN
    IF bytes < 1
    THEN [fmt |-> FMT_UNKNOWN, pos |-> 0, empty |-> TRUE]
    ELSE IF SniffBuf(f, 0) = 254 /\ SniffBuf(f, 1) = 255
    THEN [fmt |-> FMT_UTF16BE, pos |-> 2, empty |-> FALSE]
    ELSE IF SniffBuf(f, 0) = 255 /\ SniffBuf(f, 1) = 254
    THEN [fmt |-> FMT_UTF16, pos |-> 2, empty |-> FALSE]
    ELSE IF SniffBuf(f, 0) = 239 /\ SniffBuf(f, 1) = 187 /\ SniffBuf(f, 2) = 191
    THEN [fmt |-> FMT_UTF8, pos |-> 3, empty |-> FALSE]
    ELSE IF bytes > AnsiMinBytes
    THEN IF \E i \in 0 .. (Min(bytes, SniffSize) - 1) : SniffBuf(f, i) > 127
         THEN [fmt |-> FMT_UNKNOWN, pos |-> 0, empty |-> FALSE]
         ELSE [fmt |-> FMT_ANSI, pos |-> 0, empty |-> FALSE]
    ELSE [fmt |-> FMT_UNKNOWN, pos |-> 0, empty |-> FALSE]

\* CheckBOM(fpIn) on an open stream f: the encoding returned, the cursor
\* it leaves, and whether it printed "Empty input file" and closed fpIn.
CheckBOM(f) ==
    LET bytes == Min(Len(f), SniffSize) IN
    IF bytes < 1
    THEN [fmt |-> FMT_UNKNOWN, pos |-> 0, empty |-> TRUE]
    ELSE IF SniffBuf(f, 0) = 254 /\ SniffBuf(f, 1) = 255
    THEN [fmt |-> FMT_UTF16BE, pos |-> 2, empty |-> FALSE]
    ELSE IF SniffBuf(f, 0) = 255 /\ SniffBuf(f, 1) = 254
    THEN [fmt |-> FMT_UTF16, pos |-> 2, empty |-> FALSE]
    ELSE IF SniffBuf(f, 0) = 239 /\ SniffBuf(f, 1) = 187 /\ SniffBuf(f, 2) = 191
    THEN [fmt |-> FMT_UTF8, pos |-> 3, empty |-> FALSE]
    ELSE IF bytes >= AnsiMinBytes
    THEN IF \E i \in 0 .. (Min(bytes, SniffSize) - 1) : SniffBuf(f, i) > 127
         THEN [fmt |-> FMT_UNKNOWN, pos |-> 0, empty |-> FALSE]
         ELSE [fmt |-> FMT_ANSI, pos |-> 0, empty |-> FALSE]
    ELSE [fmt |-> FMT_UNKNOWN, pos |-> 0, empty |-> FALSE]

-----------------------------------------------------------------------------
(* The input files and write failures explored *)

\* Lengths of the runs of 'A' put in front of a body.
PadMid == 14
PadBig == 31

\* A failing fwrite is explored after at most this many bytes of the
\* call's data were accepted.
MaxFailAt == 1

Pad(n) == [i \in 1 .. n |-> 65]

\* Leading bytes: none, the three byte-order marks, a truncated UTF-8 mark.
Heads == { << >>, << 254, 255 >>, << 255, 254 >>, << 239, 187, 191 >>, << 239, 187 >> }

Bodies ==
    { << >>,
      << 65 >>, << 10 >>, << 65, 10 >>, << 65, 10, 66 >>, << 65, 10, 66, 10 >>,
      << 72, 101, 108, 108, 111, 10 >>,
      << 195, 169, 10 >>, << 195, 169 >>, << 65, 195 >>, << 65, 195, 169, 10 >>,
      << 128, 10 >>, << 65, 10, 254, 10 >>, << 255, 10 >>,
      << 65, 0, 10, 0 >>, << 0, 65, 0, 10 >>, << 65, 0, 10, 0, 66, 0 >>,
      << 65, 0, 10 >> }

PadBodies == { << 65 >>, << 65, 10 >>, << 128, 10 >>, << 65, 195, 169, 10 >> }

Inputs ==
    { h \o b : h \in Heads, b \in Bodies }
    \cup { h \o Pad(n) \o b : h \in Heads, n \in {PadMid, PadBig}, b \in PadBodies }

\* The numbers of bytes a stream may accept of a request of `bytes`: all
\* of them, or k of them before a write fails.
Accepts(bytes) ==
    { Len(bytes) } \cup { k \in 0 .. MaxFailAt : k < Len(bytes) }

\* Fwritten when a failed byte write is skipped and the writes go on.
FwrittenGoingOn(bytes, n) ==
    IF n >= Len(bytes) THEN bytes
    ELSE SubSeq(bytes, 1, n) \o SubSeq(bytes, n + 2, Len(bytes))

\* The bytes of a request that reach the stream when its first n byte
\* writes succeed: "if (fwrite(...) != 1) return false;" in WriteChar,
\* "if (!WriteChar(...)) return false;" in WriteLine, and the short count
\* of WriteBOM's fwrite end the request at the first write that fails.
Fwritten(bytes, n) == SubSeq(bytes, 1, n)

\* No byte write has failed.
NoFail == [failed |-> FALSE, out |-> << >>, reads |-> 0]

\* The outcomes of a call on fpIn: on an open stream it is defined; on a
\* closed one it is undefined behaviour, and the call either fails or
\* takes the process down.
Crashes == IF inState = "closed" THEN {FALSE, TRUE} ELSE {FALSE}

-----------------------------------------------------------------------------
(* main, from the successful open of the input file on *)

CodecIdle ==
    [stage |-> "idle", fmt |-> FMT_UNKNOWN, v |-> 0, tail |-> << >>,
     bytes |-> << >>, res |-> [ok |-> FALSE, Char |-> 0, pos |-> 0, invalid |-> FALSE]]

\* main up to the open of the input file: the options are parsed, fpIn is
\* open at offset 0.
StartSession(in, ifmt, ofmt, verbose, ofile) ==
    /\ inBytes = in
    /\ inPos = 0
    /\ inState = "open"
    /\ inCloses = 0
    /\ inMisuse = FALSE
    /\ InFmt = ifmt
    /\ OutFmt = ofmt
    /\ bVerbose = verbose
    /\ BOMFmt = FMT_UNKNOWN
    /\ bomPos = 0
    /\ outBytes = << >>
    /\ outState = "none"
    /\ OutFile = ofile
    /\ Line = << >>
    /\ nLines = 0
    /\ nChars = 0
    /\ readCalls = 0
    /\ decoded = << >>
    /\ msgs = {}
    /\ exitCode = "NONE"
    /\ reported = FALSE
    /\ wfail = NoFail
    /\ pc = "CheckBOM"

\* AutoFails comparing BOMFmt with the wrong enumerator.
AutoFailsWrongTag(ifmt, bomfmt) == ifmt = FMT_AUTO /\ bomfmt = FMT_AUTO

\* "if (InFmt == FMT_AUTO) { if (BOMFmt == FMT_UNKNOWN) {": AUTO mode
\* cannot identify the input format.
AutoFails(ifmt, bomfmt) == ifmt = FMT_AUTO /\ bomfmt = FMT_UNKNOWN

\* ResolveFmt letting an encoding CheckBOM detected override the declared one.
ResolveFmtPreferBOM(ifmt, bomfmt) ==
    IF ifmt = FMT_AUTO \/ bomfmt # FMT_UNKNOWN THEN bomfmt ELSE ifmt

\* "if (InFmt == FMT_AUTO) { ... InFmt = BOMFmt; }": the encoding main
\* passes to ReadLine, BOMFmt only when the declared one is AUTO.
ResolveFmt(ifmt, bomfmt) == IF ifmt = FMT_AUTO THEN bomfmt ELSE ifmt

Init ==
    /\ \E in \in Inputs, ifmt \in InFormats, ofmt \in OutFormats,
          verbose \in BOOLEAN, ofile \in BOOLEAN :
          StartSession(in, ifmt, ofmt, verbose, ofile)
    /\ session = 1
    /\ first = [input |-> inBytes, InFmt |-> InFmt, OutFmt |-> OutFmt]
    /\ codec = CodecIdle

\* A return from main (or a crash) with fpIn closed `closes` more times.
Exit(code, closes) ==
    /\ exitCode' = code
    /\ pc' = "Done"
    /\ inCloses' = inCloses + closes
    /\ inState' = IF closes > 0 THEN "closed" ELSE inState

\* "TxEncoding BOMFmt = CheckBOM(fpIn); if (InFmt == FMT_AUTO) ..."
DoCheckBOM ==
    /\ pc = "CheckBOM"
    /\ LET r == CheckBOM(inBytes)
           m == IF r.empty THEN {"Empty input file"} ELSE {}
       IN
       /\ BOMFmt' = r.fmt
       /\ inPos' = r.pos
       /\ bomPos' = r.pos
       /\ IF AutoFails(InFmt, r.fmt)
          THEN \* msg, fclose(fpIn), return EXIT_FAILURE; fpIn is already
               \* closed when CheckBOM found the file empty.
               /\ msgs' = m \cup {"AUTO mode can't identify input format"}
               /\ \E crash \in (IF r.empty THEN {FALSE, TRUE} ELSE {FALSE}) :
                     /\ exitCode' = IF crash THEN "CRASH" ELSE "EXIT_FAILURE"
               /\ pc' = "Done"
               /\ inState' = "closed"
               /\ inCloses' = IF r.empty THEN 2 ELSE 1
               /\ inMisuse' = r.empty
               /\ InFmt' = InFmt
          ELSE /\ msgs' = m
               /\ exitCode' = exitCode
               /\ pc' = "Verbose"
               /\ inState' = IF r.empty THEN "closed" ELSE inState
               /\ inCloses' = IF r.empty THEN 1 ELSE 0
               /\ inMisuse' = inMisuse
               /\ InFmt' = ResolveFmt(InFmt, r.fmt)
    /\ UNCHANGED << inBytes, OutFmt, bVerbose, outBytes, outState, OutFile, Line,
                    nLines, nChars, readCalls, decoded, session, first, reported,
                    wfail, codec >>

\* "if (bVerbose) { ... }": OldPos is what fseek returns, 0 on success,
\* and the cursor is put back to OldPos after the first bytes are read.
DoVerbose ==
    /\ pc = "Verbose"
    /\ IF ~bVerbose
       THEN /\ pc' = "OpenOut"
            /\ UNCHANGED << inPos, inState, inCloses, inMisuse, msgs, exitCode, reported >>
       ELSE IF inState = "closed"
       THEN \* fseek and fread on the closed fpIn: they fail (bytes is 0,
            \* "Empty input file", a second fclose) or the process crashes.
            /\ inMisuse' = TRUE
            /\ \E crash \in BOOLEAN :
                 IF crash
                 THEN /\ Exit("CRASH", 0)
                      /\ msgs' = msgs
                 ELSE /\ Exit("EXIT_FAILURE", 1)
                      /\ msgs' = msgs \cup {"Empty input file"}
            /\ UNCHANGED << inPos, reported >>
       ELSE LET OldPos == 0
                bytes  == Min(Len(inBytes), VerboseBytes)
            IN
            IF bytes < 1
            THEN /\ Exit("EXIT_FAILURE", 1)
                 /\ msgs' = msgs \cup {"Empty input file"}
                 /\ inPos' = OldPos
                 /\ UNCHANGED << inMisuse, reported >>
            ELSE /\ inPos' = OldPos
                 /\ reported' = TRUE
                 /\ pc' = "OpenOut"
                 /\ UNCHANGED << inState, inCloses, inMisuse, msgs, exitCode >>
    /\ UNCHANGED << inBytes, InFmt, OutFmt, bVerbose, BOMFmt, bomPos, outBytes,
                    outState, OutFile, Line, nLines, nChars, readCalls, decoded,
                    session, first, wfail, codec >>

\* "FILE *fpOut = stdout; if (OutFile.size() > 0) { if (_tfopen_s(...)) ..."
DoOpenOutput ==
    /\ pc = "OpenOut"
    /\ IF OutFile
       THEN \E opened \in BOOLEAN :
              IF opened
              THEN /\ outState' = "file"
                   /\ pc' = "WriteBOM"
                   /\ UNCHANGED << msgs, exitCode >>
              ELSE /\ outState' = outState
                   /\ msgs' = msgs \cup {"Failed opening output file"}
                   /\ exitCode' = "EXIT_FAILURE"
                   /\ pc' = "Done"
       ELSE /\ outState' = "stdout"
            /\ pc' = "WriteBOM"
            /\ UNCHANGED << msgs, exitCode >>
    /\ UNCHANGED << inBytes, inPos, inState, inCloses, inMisuse, InFmt, OutFmt,
                    bVerbose, BOMFmt, bomPos, outBytes, OutFile, Line, nLines,
                    nChars, readCalls, decoded, session, first, reported, wfail,
                    codec >>

\* The state of fpOut after "if (OutFile.size() > 0) fclose(fpOut);".
ClosedOut == IF OutFile THEN "closed" ELSE outState

\* "if (!WriteBOM(fpOut, OutFmt)) { fclose(fpIn); ... return EXIT_FAILURE; }"
\* and "nLines = nChars = 0;".
DoWriteBOM ==
    /\ pc = "WriteBOM"
    /\ LET bytes == WriteBOMBytes(OutFmt) IN
       \E n \in Accepts(bytes) :
          /\ outBytes' = outBytes \o Fwritten(bytes, n)
          /\ IF n = Len(bytes)
             THEN /\ pc' = "Loop"
                  /\ UNCHANGED << inState, inCloses, inMisuse, exitCode, outState, wfail >>
             ELSE /\ wfail' = [failed |-> TRUE, out |-> outBytes \o SubSeq(bytes, 1, n),
                               reads |-> readCalls]
                  /\ \E crash \in Crashes :
                        Exit(IF crash THEN "CRASH" ELSE "EXIT_FAILURE", 1)
                  /\ inMisuse' = (inMisuse \/ inState = "closed")
                  /\ outState' = ClosedOut
    /\ nLines' = 0
    /\ nChars' = 0
    /\ UNCHANGED << inBytes, inPos, InFmt, OutFmt, bVerbose, BOMFmt, bomPos,
                    OutFile, Line, readCalls, decoded, msgs, session, first,
                    reported, codec >>

\* One evaluation of "while (ReadLine(fpIn, InFmt, Line))" and, when it
\* returns true, the body: nLines++ and WriteLine.
DoLoop ==
    /\ pc = "Loop"
    /\ IF inState = "closed"
       THEN \* fread on the closed fpIn: it fails, or the process crashes.
            /\ inMisuse' = TRUE
            /\ readCalls' = readCalls + 1
            /\ Line' = << >>
            /\ decoded' = decoded
            /\ \E crash \in BOOLEAN :
                 IF crash THEN Exit("CRASH", 0)
                          ELSE /\ pc' = "Cleanup"
                               /\ UNCHANGED << exitCode, inCloses, inState >>
            /\ UNCHANGED << inPos, nLines, nChars, msgs, outBytes, outState, wfail >>
       ELSE LET r == ReadLine(inBytes, inPos, InFmt)
                m == IF r.invalid THEN {"Invalid character sequence for UTF-8"} ELSE {}
            IN
            /\ Line' = r.Line
            /\ decoded' = decoded \o r.Line
            /\ inPos' = r.pos
            /\ nChars' = nChars + r.chars
            /\ readCalls' = readCalls + r.calls
            /\ inMisuse' = inMisuse
            /\ IF ~r.ok
               THEN /\ pc' = "Cleanup"
                    /\ msgs' = msgs \cup m
                    /\ UNCHANGED << nLines, outBytes, outState, exitCode, inCloses,
                                    inState, wfail >>
               ELSE LET bytes == WriteLineBytes(OutFmt, r.Line) IN
                    /\ nLines' = nLines + 1
                    /\ \E n \in Accepts(bytes) :
                          /\ outBytes' = outBytes \o Fwritten(bytes, n)
                          /\ IF n = Len(bytes)
                             THEN /\ pc' = "Loop"
                                  /\ UNCHANGED << msgs, outState, exitCode, inCloses,
                                                  inState, wfail >>
                             ELSE /\ wfail' = [failed |-> TRUE,
                                               out |-> outBytes \o SubSeq(bytes, 1, n),
                                               reads |-> readCalls + r.calls]
                                  /\ msgs' = msgs \cup {"Failed writing output file"}
                                  /\ Exit("EXIT_FAILURE", 1)
                                  /\ outState' = ClosedOut
    /\ UNCHANGED << inBytes, InFmt, OutFmt, bVerbose, BOMFmt, bomPos, OutFile,
                    session, first, reported, codec >>

\* "// Clean up.  fclose(fpIn); if (OutFile.size() > 0) fclose(fpOut);
\* return EXIT_SUCCESS;"
DoCleanup ==
    /\ pc = "Cleanup"
    /\ \E crash \in Crashes : Exit(IF crash THEN "CRASH" ELSE "EXIT_SUCCESS", 1)
    /\ inMisuse' = (inMisuse \/ inState = "closed")
    /\ outState' = ClosedOut
    /\ UNCHANGED << inBytes, inPos, InFmt, OutFmt, bVerbose, BOMFmt, bomPos,
                    outBytes, OutFile, Line, nLines, nChars, readCalls, decoded,
                    msgs, session, first, reported, wfail, codec >>

Next ==
    \/ DoCheckBOM
    \/ DoVerbose
    \/ DoOpenOutput
    \/ DoWriteBOM
    \/ DoLoop
    \/ DoCleanup

Spec == Init /\ [][Next]_vars

-----------------------------------------------------------------------------
(* A conversion followed by the conversion of its output back *)

\* main up to the open of the input file, run on the output file a first
\* successful session wrote: the target is the encoding the first session
\* read, the source is declared as what the first session wrote, or AUTO.
ConvertBack ==
    /\ pc = "Done"
    /\ session = 1
    /\ exitCode = "EXIT_SUCCESS"
    /\ OutFile
    /\ \E ifmt \in {FMT_AUTO, OutFmt}, verbose \in BOOLEAN :
          /\ inBytes' = outBytes
          /\ inPos' = 0
          /\ inState' = "open"
          /\ inCloses' = 0
          /\ inMisuse' = FALSE
          /\ InFmt' = ifmt
          /\ OutFmt' = InFmt
          /\ bVerbose' = verbose
          /\ BOMFmt' = FMT_UNKNOWN
          /\ bomPos' = 0
          /\ outBytes' = << >>
          /\ outState' = "none"
          /\ OutFile' = OutFile
          /\ Line' = << >>
          /\ nLines' = 0
          /\ nChars' = 0
          /\ readCalls' = 0
          /\ decoded' = << >>
          /\ msgs' = {}
          /\ exitCode' = "NONE"
          /\ reported' = FALSE
          /\ wfail' = NoFail
          /\ pc' = "CheckBOM"
    /\ session' = 2
    /\ UNCHANGED << first, codec >>

RoundTripNext == Next \/ ConvertBack

RoundTripSpec == Init /\ [][RoundTripNext]_vars

-----------------------------------------------------------------------------
(* One character written by WriteChar and read back by ReadChar *)

\* Every code point up to this one is tried, besides the band limits.
MaxSmallChar == 300

RECURSIVE Pow2(_)
Pow2(k) == IF k = 0 THEN 1 ELSE 2 * Pow2(k - 1)

\* The code points tried: the small ones, the limits of the six bands of
\* WriteChar's UTF-8 case and their neighbours, and a few characters.
SampleChars ==
    (0 .. MaxSmallChar)
    \cup { Pow2(k) - 1 : k \in {7, 8, 11, 16, 21, 26} }
    \cup { Pow2(k) : k \in {7, 8, 11, 16, 21, 26} }
    \cup { Pow2(k) + 1 : k \in {7, 8, 11, 16, 21, 26} }
    \cup { 8364, 65279, 65534, 1114111, 2147483646, 2147483647 }

\* What follows the written character in the stream read back.
Tails == { << >>, << 10 >>, << 65, 10 >> }

\* No session runs while a single character is written and read back.
NoSession ==
    /\ StartSession(<< >>, FMT_ANSI, FMT_ANSI, FALSE, FALSE)
    /\ session = 1
    /\ first = [input |-> << >>, InFmt |-> FMT_ANSI, OutFmt |-> FMT_ANSI]

CodecInit ==
    /\ NoSession
    /\ \E fmt \in OutFormats, v \in SampleChars, tail \in Tails :
          codec = [CodecIdle EXCEPT !.stage = "chosen", !.fmt = fmt, !.v = v,
                                    !.tail = tail]

\* WriteChar(fpOut, fmt, v) to an empty stream that accepts every byte,
\* followed by the bytes of tail.
CodecWrite ==
    /\ codec.stage = "chosen"
    /\ codec' = [codec EXCEPT !.stage = "written",
                              !.bytes = WriteCharBytes(codec.fmt, codec.v) \o codec.tail]
    /\ UNCHANGED sessionVars

\* ReadChar(fpIn, fmt, Char) at the start of the stream just written.
CodecRead ==
    /\ codec.stage = "written"
    /\ codec' = [codec EXCEPT !.stage = "read",
                              !.res = ReadChar(codec.bytes, 0, codec.fmt)]
    /\ UNCHANGED sessionVars

CodecNext == CodecWrite \/ CodecRead

CodecSpec == CodecInit /\ [][CodecNext]_vars

-----------------------------------------------------------------------------
(* Properties *)

\* The bytes WriteChar emitted in the round trip, without the tail.
CodecEmitted == Len(codec.bytes) - Len(codec.tail)

\* C1: UTF-8 round trip: for every code point v in 0..0x7FFFFFFF, ReadChar
\* on the bytes WriteChar(FMT_UTF8, v) emitted succeeds, consumes exactly
\* those bytes and returns v.
C1_Utf8RoundTrip ==
    (codec.stage = "read" /\ codec.fmt = FMT_UTF8 /\ codec.v <= 2147483647)
    => /\ codec.res.ok
       /\ codec.res.pos = CodecEmitted
       /\ codec.res.Char = codec.v

\* C7: round trip of the fixed-width encodings: for UTF16 (LE) and UTF16BE
\* and every v in 0..0xFFFF, WriteChar emits two bytes and ReadChar on them
\* returns v; for ANSI and every v, WriteChar emits one byte, without an
\* error for v > 255, and ReadChar on it returns v mod 256.
C7_FixedWidthRoundTrip ==
    codec.stage = "read"
    => /\ (codec.fmt \in {FMT_UTF16, FMT_UTF16BE} /\ codec.v <= 65535)
          => /\ CodecEmitted = 2
             /\ codec.res = [ok |-> TRUE, Char |-> codec.v, pos |-> 2, invalid |-> FALSE]
       /\ codec.fmt = FMT_ANSI
          => /\ CodecEmitted = 1
             /\ codec.res = [ok |-> TRUE, Char |-> codec.v % 256, pos |-> 1, invalid |-> FALSE]

\* C7 witness: U+FEFF written as UTF16 (LE) came out as FF FE and was read back.
C7_Witness ==
    /\ codec.stage = "read"
    /\ codec.fmt = FMT_UTF16
    /\ codec.v = 65279
    /\ codec.bytes = << 255, 254 >> \o codec.tail
    /\ codec.res.ok
    /\ codec.res.Char = 65279

StartsWith(f, prefix) ==
    Len(f) >= Len(prefix) /\ SubSeq(f, 1, Len(prefix)) = prefix

IsPrefix(a, b) == Len(a) <= Len(b) /\ SubSeq(b, 1, Len(a)) = a

\* The length of the byte-order mark a stream starts with, 0 without one.
MarkLen(f) ==
    IF StartsWith(f, << 254, 255 >>) \/ StartsWith(f, << 255, 254 >>) THEN 2
    ELSE IF StartsWith(f, << 239, 187, 191 >>) THEN 3
    ELSE 0

\* The byte-order mark of a target encoding.
MarkOf(fmt) ==
    CASE fmt = FMT_UTF16   -> << 255, 254 >>
      [] fmt = FMT_UTF16BE -> << 254, 255 >>
      [] fmt = FMT_UTF8    -> << 239, 187, 191 >>
      [] OTHER             -> << >>

\* The code points of stream f from cursor p on: whole is TRUE when every
\* byte up to the end of the stream was decoded by a successful ReadChar.
RECURSIVE DecodeAll(_, _, _)
DecodeAll(f, p, fmt) ==
    IF p >= Len(f) THEN [whole |-> TRUE, chars |-> << >>]
    ELSE LET r == ReadChar(f, p, fmt) IN
         IF ~r.ok THEN [whole |-> FALSE, chars |-> << >>]
         ELSE LET rest == DecodeAll(f, r.pos, fmt) IN
              [whole |-> rest.whole, chars |-> << r.Char >> \o rest.chars]

\* C2: line segmentation in the session loop: when the session ends
\* normally, every code point decoded was written to the output, those
\* decoded after the last 0x0A of an input without a trailing 0x0A too.
C2_UnterminatedLineWritten ==
    (pc = "Done" /\ exitCode = "EXIT_SUCCESS")
    => outBytes = WriteBOMBytes(OutFmt) \o WriteLineBytes(OutFmt, decoded)

\* C3: ANSI -> UTF8 -> ANSI: for an input whose bytes are all <= 127, a
\* session from ANSI to UTF8 followed by a session on its output, declared
\* AUTO or UTF8, to ANSI, writes the bytes of the original input.
C3_AnsiUtf8AnsiRoundTrip ==
    ( /\ session = 2
      /\ pc = "Done"
      /\ exitCode = "EXIT_SUCCESS"
      /\ first.InFmt = FMT_ANSI
      /\ first.OutFmt = FMT_UTF8
      /\ OutFmt = FMT_ANSI
      /\ \A i \in 1 .. Len(first.input) : first.input[i] <= 127 )
    => outBytes = first.input

C5_EmptyInput ==
    inBytes = << >>
    => /\ outBytes = << >>
       /\ pc = "Done" => (exitCode # "EXIT_SUCCESS" /\ "Empty input file" \in msgs)

\* C6: a session in which ReadChar met an invalid UTF-8 leading byte ends
\* with a failure, unlike one that met a clean end of stream.
C6_DecodeErrorFails ==
    (pc = "Done" /\ "Invalid character sequence for UTF-8" \in msgs)
    => exitCode = "EXIT_FAILURE"

\* The output C8 describes for input f declared or detected as ifmt.
ExpectedOutput(f, ifmt, ofmt) ==
    MarkOf(ofmt) \o WriteLineBytes(ofmt, DecodeAll(f, MarkLen(f), ifmt).chars)

\* The input decodes without error, past its mark, into code points that
\* end with 0x0A.
EndsWithNewline(f, ifmt) ==
    LET d == DecodeAll(f, MarkLen(f), ifmt) IN
    /\ d.whole
    /\ d.chars # << >>
    /\ d.chars[Len(d.chars)] = LF

\* C8: the output of a whole session, verbose off, on a non-empty input
\* that decodes without error and ends with 0x0A: the mark of the target
\* encoding once at the very start, then the WriteChar bytes of every
\* decoded code point in input order, the input's own mark not decoded.
\* While the session runs, the output is a prefix of that.
C8_WholeSessionOutput ==
    (~bVerbose /\ EndsWithNewline(inBytes, InFmt))
    => /\ IsPrefix(outBytes, ExpectedOutput(inBytes, InFmt, OutFmt))
       /\ exitCode = "EXIT_SUCCESS" => outBytes = ExpectedOutput(inBytes, InFmt, OutFmt)
       /\ ( inBytes = << 72, 101, 108, 108, 111, 10 >> /\ InFmt = FMT_ANSI
              /\ OutFmt = FMT_UTF16 /\ exitCode = "EXIT_SUCCESS" )
          => outBytes = << 255, 254, 72, 0, 101, 0, 108, 0, 108, 0, 111, 0, 10, 0 >>
       /\ ( inBytes = << 239, 187, 191, 195, 169, 10 >> /\ first.InFmt = FMT_AUTO
              /\ OutFmt = FMT_UTF16BE /\ exitCode = "EXIT_SUCCESS" )
          => outBytes = << 254, 255, 0, 233, 0, 10 >>

\* C8 witness: EF BB BF C3 A9 0A, detected as UTF8, was converted to
\* FE FF 00 E9 00 0A.
C8_Witness ==
    /\ pc = "Done"
    /\ exitCode = "EXIT_SUCCESS"
    /\ ~bVerbose
    /\ inBytes = << 239, 187, 191, 195, 169, 10 >>
    /\ first.InFmt = FMT_AUTO
    /\ OutFmt = FMT_UTF16BE
    /\ decoded = << 233, 10 >>
    /\ outBytes = << 254, 255, 0, 233, 0, 10 >>

\* C9: unidentified format under AUTO: once CheckBOM has returned
\* FMT_UNKNOWN to a session whose input encoding is AUTO, the session is
\* over with a failure (a crash in the second close of an empty input
\* included), the output was never opened, no byte was written and
\* ReadChar was never invoked.
C9_UnresolvedAutoFails ==
    (session = 1 /\ first.InFmt = FMT_AUTO /\ pc # "CheckBOM" /\ BOMFmt = FMT_UNKNOWN)
    => /\ pc = "Done"
       /\ exitCode \in {"EXIT_FAILURE", "CRASH"}
       /\ outState = "none"
       /\ outBytes = << >>
       /\ readCalls = 0

\* C9 witness: a non-empty input AUTO could not identify ended the session
\* with EXIT_FAILURE and the message asking for /INFORMAT.
C9_Witness ==
    /\ pc = "Done"
    /\ first.InFmt = FMT_AUTO
    /\ BOMFmt = FMT_UNKNOWN
    /\ inBytes # << >>
    /\ exitCode = "EXIT_FAILURE"
    /\ "AUTO mode can't identify input format" \in msgs
    /\ outState = "none"

\* C10: the verbose report leaves the cursor of the input where CheckBOM
\* left it (so the output does not depend on verbose).
C10_VerboseKeepsCursor ==
    pc = "OpenOut" => inPos = bomPos

\* C11: a write failure aborts without retry: once a byte write has
\* failed, in WriteBOM or in WriteChar under WriteLine, the session is over
\* with a failure (a crash in the second close of an empty input
\* included), the output holds exactly the bytes accepted before the
\* failing write, and ReadChar was not invoked again.
C11_WriteFailureAborts ==
    wfail.failed
    => /\ pc = "Done"
       /\ exitCode \in {"EXIT_FAILURE", "CRASH"}
       /\ outBytes = wfail.out
       /\ readCalls = wfail.reads

\* C11 witness: the second line of the input failed to be written after
\* one of its bytes; the first line and that byte are in the output.
C11_Witness ==
    /\ wfail.failed
    /\ pc = "Done"
    /\ exitCode = "EXIT_FAILURE"
    /\ "Failed writing output file" \in msgs
    /\ nLines = 2
    /\ Len(wfail.out) > 1
    /\ outBytes = wfail.out

\* The index, 1..6, of the magnitude band of a code point up to 0x7FFFFFFF.
Band(v) ==
    IF v <= 127 THEN 1
    ELSE IF v <= 2047 THEN 2
    ELSE IF v <= 65535 THEN 3
    ELSE IF v <= 2097151 THEN 4
    ELSE IF v <= 67108863 THEN 5
    ELSE 6

\* Byte b carries the leading prefix of a k-byte sequence, k in 2..6:
\* 110xxxxx, 1110xxxx, 11110xxx, 111110xx, 1111110x.
HasLeadPrefix(b, k) ==
    CASE k = 2 -> b \div 32 = 6
      [] k = 3 -> b \div 16 = 14
      [] k = 4 -> b \div 8 = 30
      [] k = 5 -> b \div 4 = 62
      [] k = 6 -> b \div 2 = 126

\* C12: UTF-8 writer byte count: for every code point v in 0..0x7FFFFFFF,
\* WriteChar(FMT_UTF8, v) emits exactly k bytes, k the index of v's band;
\* for k >= 2 the first carries the k-byte leading prefix and the others
\* have the form 10xxxxxx; and ReadChar consumes exactly those k bytes.
C12_Utf8ByteCount ==
    (codec.stage \in {"written", "read"} /\ codec.fmt = FMT_UTF8 /\ codec.v <= 2147483647)
    => LET k == Band(codec.v) IN
       /\ CodecEmitted = k
       /\ k >= 2 => /\ HasLeadPrefix(codec.bytes[1], k)
                    /\ \A i \in 2 .. k : codec.bytes[i] \div 64 = 2
       /\ codec.stage = "read" => codec.res.pos = k

\* C12 holds up to 0x3FFFFFF, the bands of 1 to 5 bytes (a side check; the
\* claim is about every band).
C12_FirstFiveBands ==
    codec.v <= 67108863 => C12_Utf8ByteCount

\* C13: lifecycle of the input stream: when a session is over, whatever
\* its path, fpIn was closed exactly once and was never read, sought or
\* closed after its close.
C13_InputClosedOnce ==
    pc = "Done" => (inCloses = 1 /\ ~inMisuse)

\* C13, on the paths through a failed open of the output file alone.
C13_ClosedOnOpenFailure ==
    (pc = "Done" /\ "Failed opening output file" \in msgs) => inCloses = 1

\* C13, on the sessions of a non-empty input whose output was opened (a
\* side check: these paths do close fpIn once and leave it alone).
C13_OtherPaths ==
    (pc = "Done" /\ inBytes # << >> /\ "Failed opening output file" \notin msgs)
    => (inCloses = 1 /\ ~inMisuse /\ inState = "closed")

\* The code points successive ReadChar calls return on stream f from
\* cursor p, up to the first call that returns false.
RECURSIVE DecodedPrefix(_, _, _)
DecodedPrefix(f, p, fmt) ==
    LET r == ReadChar(f, p, fmt) IN
    IF ~r.ok THEN << >>
    ELSE << r.Char >> \o DecodedPrefix(f, r.pos, fmt)

\* C14: sniffing with a declared input encoding, verbose off, non-empty
\* input: decoding starts at the offset the leading bytes alone decide (3
\* after EF BB BF, 2 after FF FE or FE FF, else 0), whatever encoding was
\* declared; and a declared encoding other than AUTO is the one ReadChar
\* is given for the whole session, whatever CheckBOM returned: the code
\* points read are those of the declared encoding from that offset.
C14_DeclaredEncodingKept ==
    (session = 1 /\ ~bVerbose /\ inBytes # << >>)
    => /\ (pc \in {"Verbose", "OpenOut", "WriteBOM"} \/ (pc = "Loop" /\ readCalls = 0))
          => inPos = MarkLen(inBytes)
       /\ first.InFmt # FMT_AUTO
          => LET all == DecodedPrefix(inBytes, MarkLen(inBytes), first.InFmt) IN
             /\ InFmt = first.InFmt
             /\ IsPrefix(decoded, all)
             /\ pc = "Cleanup" => decoded = all

\* C14 witness: FF FE 41 0A declared ANSI: CheckBOM detected UTF16 and
\* skipped the mark, and 41 0A was read as ANSI.
C14_Witness ==
    /\ pc = "Done"
    /\ exitCode = "EXIT_SUCCESS"
    /\ ~bVerbose
    /\ inBytes = << 255, 254, 65, 10 >>
    /\ first.InFmt = FMT_ANSI
    /\ BOMFmt = FMT_UTF16
    /\ bomPos = 2
    /\ InFmt = FMT_ANSI
    /\ decoded = << 65, 10 >>

====
